---- MODULE Spec2Model ----
(***************************************************************************)
(* The tree-sitter token gateway of editor/tsgateway/src/lib.rs: the kind  *)
(* classifier, the structural tokenizer, the query-based highlighter, the  *)
(* full-parse entry point and the two release operations, over an abstract *)
(* heap.  Strings are sequences of bytes; a u32 is a pair of 16-bit limbs  *)
(* [hi, lo] so that the wrapping arithmetic of hash_kind keeps its width.  *)
(***************************************************************************)
EXTENDS Integers, Sequences, FiniteSets, TLC

VARIABLES
    heap,      \* the allocator: address -> cell (free, or a live allocation)
    outSlot,   \* the caller's pointer slot that out_tokens points at
    owned,     \* the (pointer, length) pairs handed out and not yet released
    misuse,    \* the caller has broken the release contract
    fault,     \* "none", or how the process left defined behaviour
    pc,        \* "idle", "walk" (the loop of ts_get_tokens), "returned", "stopped"
    tree,      \* ts_get_tokens: the parsed tree (NoTree outside the call)
    stack,     \* ts_get_tokens: the work stack of nodes
    tokens,    \* ts_get_tokens: the Vec<Token> being filled
    ret,       \* the last call: its arguments, the library outcomes, its result
    reports,   \* whether the grammar reports in-range spans: "exact" | "arbitrary"
    cName,     \* classifier run: the name classified
    cKind,     \* classifier run: map_capture_to_kind(cName), or Unset
    cHash      \* classifier run: the u32 accumulator of hash_kind(cName), or Unset

vars == <<heap, outSlot, owned, misuse, fault, pc, tree, stack, tokens, ret,
          reports, cName, cKind, cHash>>

(***************************************************************************)
(* Bounds of the model.                                                    *)
(***************************************************************************)
MaxSrcLen == 2     \* longest source text, in bytes
MaxAllocs == 2     \* addresses the allocator hands out
MaxNameLen == 2    \* longest name built from Alphabet for the classifier

(***************************************************************************)
(* Names, as UTF-8 bytes.                                                  *)
(***************************************************************************)
N_function == <<102, 117, 110, 99, 116, 105, 111, 110>>
N_function_call == <<102, 117, 110, 99, 116, 105, 111, 110, 46, 99, 97, 108, 108>>
N_function_decorator ==
    <<102, 117, 110, 99, 116, 105, 111, 110, 46, 100, 101, 99, 111, 114, 97, 116, 111, 114>>
N_type == <<116, 121, 112, 101>>
N_type_builtin == <<116, 121, 112, 101, 46, 98, 117, 105, 108, 116, 105, 110>>
N_trait == <<116, 114, 97, 105, 116>>
N_keyword == <<107, 101, 121, 119, 111, 114, 100>>
N_keyword_directive ==
    <<107, 101, 121, 119, 111, 114, 100, 46, 100, 105, 114, 101, 99, 116, 105, 118, 101>>
N_string == <<115, 116, 114, 105, 110, 103>>
N_character == <<99, 104, 97, 114, 97, 99, 116, 101, 114>>
N_number == <<110, 117, 109, 98, 101, 114>>
N_boolean == <<98, 111, 111, 108, 101, 97, 110>>
N_constant == <<99, 111, 110, 115, 116, 97, 110, 116>>
N_constant_builtin ==
    <<99, 111, 110, 115, 116, 97, 110, 116, 46, 98, 117, 105, 108, 116, 105, 110>>
N_comment == <<99, 111, 109, 109, 101, 110, 116>>
N_operator == <<111, 112, 101, 114, 97, 116, 111, 114>>
N_punctuation == <<112, 117, 110, 99, 116, 117, 97, 116, 105, 111, 110>>
N_variable == <<118, 97, 114, 105, 97, 98, 108, 101>>
N_parameter == <<112, 97, 114, 97, 109, 101, 116, 101, 114>>
N_field == <<102, 105, 101, 108, 100>>
N_macro == <<109, 97, 99, 114, 111>>
\* grammar node-kind names used by the trees below
N_source_file == <<115, 111, 117, 114, 99, 101, 95, 102, 105, 108, 101>>
N_translation_unit ==
    <<116, 114, 97, 110, 115, 108, 97, 116, 105, 111, 110, 95, 117, 110, 105, 116>>
N_module == <<109, 111, 100, 117, 108, 101>>
N_fn == <<102, 110>>
N_call_expression == <<99, 97, 108, 108, 95, 101, 120, 112, 114, 101, 115, 115, 105, 111, 110>>
N_identifier == <<105, 100, 101, 110, 116, 105, 102, 105, 101, 114>>
N_lparen == <<40>>
N_expression_statement ==
    <<101, 120, 112, 114, 101, 115, 115, 105, 111, 110, 95, 115, 116, 97, 116, 101, 109, 101, 110, 116>>
\* the three placeholder strings of ts_parse
S_unsupported == <<40, 117, 110, 115, 117, 112, 112, 111, 114, 116, 101, 100, 41>>
S_language_error ==
    <<40, 108, 97, 110, 103, 117, 97, 103, 101, 32, 101, 114, 114, 111, 114, 41>>
S_parse_failed == <<40, 112, 97, 114, 115, 101, 32, 102, 97, 105, 108, 101, 100, 41>>

(***************************************************************************)
(* The kind classifier.                                                    *)
(***************************************************************************)
TOKEN_FUNCTION == 1
TOKEN_FUNCTION_CALL == 2
TOKEN_TYPE == 3
TOKEN_TYPE_BUILTIN == 4
TOKEN_KEYWORD == 5
TOKEN_STRING == 6
TOKEN_CHARACTER == 7
TOKEN_NUMBER == 8
TOKEN_BOOLEAN == 9
TOKEN_COMMENT == 10
TOKEN_OPERATOR == 11
TOKEN_PUNCTUATION == 12
TOKEN_VARIABLE == 13
TOKEN_CONSTANT == 14
TOKEN_FIELD == 15
TOKEN_PARAMETER == 16
TOKEN_MACRO == 17
TOKEN_TRAIT == 18
TOKEN_DIRECTIVE == 19
TOKEN_DECORATOR == 20

\* 2^16: a u32 is [hi |-> h \div Limb, lo |-> h % Limb]
Limb == 65536

\* the seed 2166136261 = 33052 * 65536 + 40389 (0x811C9DC5)
FNV_OFFSET_HI == 33052
FNV_OFFSET_LO == 40389
\* the multiplier 16777619 (0x01000193)
FNV_PRIME == 16777619

RECURSIVE BitXor(_, _)
\* a ^ b on naturals
BitXor(a, b) ==
    IF a = 0 THEN b
    ELSE IF b = 0 THEN a
    ELSE (((a % 2) + (b % 2)) % 2) + 2 * BitXor(a \div 2, b \div 2)

\* h ^ (b as u32), b a byte: only the low limb changes
XorByte(h, b) == [hi |-> h.hi, lo |-> BitXor(h.lo, b)]

\* h.wrapping_mul(m): the low 32 bits of h * m, limb by limb (every partial
\* product of FNV_PRIME's limbs, 256 and 403, stays below 2^31)
WrappingMul(h, m) ==
    LET mhi == m \div Limb
        mlo == m % Limb
        p0  == h.lo * mlo
    IN  [hi |-> (h.hi * mlo + h.lo * mhi + (p0 \div Limb)) % Limb,
         lo |-> p0 % Limb]

\* a plausible slip: multiply first, then XOR (FNV-1 instead of FNV-1a)
FnvStepFnv1(h, b) == XorByte(WrappingMul(h, FNV_PRIME), b)

\* one loop iteration of hash_kind: h = (h ^ b as u32).wrapping_mul(16777619)
FnvStep(h, b) == WrappingMul(XorByte(h, b), FNV_PRIME)

RECURSIVE FnvFold(_, _)
\* the loop of hash_kind over the bytes of kind, from accumulator h
FnvFold(h, bytes) ==
    IF bytes = <<>> THEN h
    ELSE LET next == FnvStep(h, Head(bytes))
         IN  \* (the test forces next before the following iteration)
             IF next.lo >= 0 THEN FnvFold(next, Tail(bytes)) ELSE next

\* the u32 accumulator of hash_kind after its loop
hash32(kind) == FnvFold([hi |-> FNV_OFFSET_HI, lo |-> FNV_OFFSET_LO], kind)

\* hash_kind: (h & 0xFFFF) as u16
hash_kind(kind) == hash32(kind).lo

\* a plausible slip: the table dropped, every name hashed
map_capture_to_kind_hashOnly(capture_name) == hash_kind(capture_name)

\* map_capture_to_kind: the match on the capture name, hash_kind as the default arm
map_capture_to_kind(capture_name) ==
    CASE capture_name = N_function -> TOKEN_FUNCTION
      [] capture_name = N_function_call -> TOKEN_FUNCTION_CALL
      [] capture_name = N_function_decorator -> TOKEN_DECORATOR
      [] capture_name = N_type -> TOKEN_TYPE
      [] capture_name = N_type_builtin -> TOKEN_TYPE_BUILTIN
      [] capture_name = N_trait -> TOKEN_TRAIT
      [] capture_name = N_keyword -> TOKEN_KEYWORD
      [] capture_name = N_keyword_directive -> TOKEN_DIRECTIVE
      [] capture_name = N_string -> TOKEN_STRING
      [] capture_name = N_character -> TOKEN_CHARACTER
      [] capture_name = N_number -> TOKEN_NUMBER
      [] capture_name = N_boolean -> TOKEN_BOOLEAN
      [] capture_name = N_constant -> TOKEN_CONSTANT
      [] capture_name = N_constant_builtin -> TOKEN_CONSTANT
      [] capture_name = N_comment -> TOKEN_COMMENT
      [] capture_name = N_operator -> TOKEN_OPERATOR
      [] capture_name = N_punctuation -> TOKEN_PUNCTUATION
      [] capture_name = N_variable -> TOKEN_VARIABLE
      [] capture_name = N_parameter -> TOKEN_PARAMETER
      [] capture_name = N_field -> TOKEN_FIELD
      [] capture_name = N_macro -> TOKEN_MACRO
      [] OTHER -> hash_kind(capture_name)

(***************************************************************************)
(* Pointers and the heap.                                                  *)
(***************************************************************************)
\* the null pointer
Null == 0
\* the pointer of an empty Box<[Token]>: non-null and dangling, no allocation behind it
Dangling == -1

FreeCell == [kind |-> "free", n |-> 0]

FreeAddrs(h) == {a \in DOMAIN h : h[a].kind = "free"}

\* the address the allocator hands out next
NewAddr(h) == CHOOSE a \in FreeAddrs(h) : \A b \in FreeAddrs(h) : a <= b

\* an allocation of n records of the given kind
Allocate(h, kind, n) == [h EXCEPT ![NewAddr(h)] = [kind |-> kind, n |-> n]]

\* the deallocation of address a
Deallocate(h, a) == [h EXCEPT ![a] = FreeCell]

\* a plausible slip: the Vec's capacity leaks into the boxed slice (one record too many)
BoxedLenOffByOne(toks) == Len(toks) + 1

\* tokens.into_boxed_slice(): the slice holds exactly tokens.len() records
BoxedLen(toks) == Len(toks)

\* boxed.as_ptr() of the slice into_boxed_slice() made in heap h
BoxedPtr(h, toks) == IF BoxedLen(toks) = 0 THEN Dangling ELSE NewAddr(h)

\* the heap after into_boxed_slice() and mem::forget(boxed)
BoxedHeap(h, toks) ==
    IF BoxedLen(toks) = 0 THEN h ELSE Allocate(h, "tokens", BoxedLen(toks))

(***************************************************************************)
(* The grammar registry and the parser.                                    *)
(***************************************************************************)
NoLanguage == "none"

\* a plausible slip: one id too many is accepted
get_language_extra(lang_id) ==
    CASE lang_id = 0 -> "rust"
      [] lang_id = 1 -> "c"
      [] lang_id = 2 -> "python"
      [] lang_id = 3 -> "odin"
      [] lang_id = 4 -> "odin"
      [] OTHER -> NoLanguage

\* get_language: Some(grammar) for 0..3, None otherwise
get_language(lang_id) ==
    CASE lang_id = 0 -> "rust"
      [] lang_id = 1 -> "c"
      [] lang_id = 2 -> "python"
      [] lang_id = 3 -> "odin"
      [] OTHER -> NoLanguage

\* the match on lang_id inside ts_get_tokens
TokensLanguage(lang_id) ==
    CASE lang_id = 0 -> "rust"
      [] lang_id = 1 -> "c"
      [] lang_id = 2 -> "python"
      [] lang_id = 3 -> "odin"
      [] OTHER -> NoLanguage

\* Parser::new(): no language assigned
ParserNew == [language |-> NoLanguage]

\* parser.set_language(&lang): Ok assigns the language, Err leaves the parser as it was
ParserSetLanguage(parser, lang, attachOk) ==
    IF attachOk THEN [language |-> lang] ELSE parser

NoTree == [shape |-> 0, language |-> NoLanguage, span |-> <<>>]

\* parser.parse(code, None): None without an assigned language or when the
\* parser gives up, else the tree t the grammar builds
ParserParse(parser, parseOk, t) ==
    IF parser.language = NoLanguage \/ ~parseOk THEN NoTree ELSE t

(***************************************************************************)
(* Trees, as the grammars (opaque providers) build them.  A tree is a      *)
(* shape, the grammar it came from, and the byte span each node reports.   *)
(***************************************************************************)
\* children of each node, per shape; node 1 is the root
ShapeKids ==
    << << <<>> >>,
       << <<2, 3>>, <<>>, <<4, 5>>, <<>>, <<>> >>,
       << <<2>>, <<3>>, <<>> >> >>

\* kind names of the nodes below the root, per shape
ShapeKinds ==
    << << <<>> >>,
       << <<>>, N_fn, N_call_expression, N_identifier, N_lparen >>,
       << <<>>, N_expression_statement, N_identifier >> >>

Shapes == 1..Len(ShapeKids)

Nodes(shape) == 1..Len(ShapeKids[shape])

\* the root's kind name in each grammar (asserted by the tests for rust, c, python)
RootKind(language) ==
    CASE language = "rust" -> N_source_file
      [] language = "c" -> N_translation_unit
      [] language = "python" -> N_module
      [] OTHER -> N_source_file

\* node.kind()
NodeKind(t, node) ==
    IF node = 1 THEN RootKind(t.language) ELSE ShapeKinds[t.shape][node]

\* node.child_count()
ChildCount(t, node) == Len(ShapeKids[t.shape][node])

\* node.child(i), i from 0
Child(t, node, i) == ShapeKids[t.shape][node][i + 1]

\* node.start_byte() and node.end_byte()
StartByte(t, node) == t.span[node][1]
EndByte(t, node) == t.span[node][2]

\* the spans a well-behaved grammar reports for a source of len bytes
ExactSpan(shape, len) ==
    [node \in Nodes(shape) |->
        IF shape = 2 /\ node = 2 THEN <<0, 1>>
        ELSE IF shape = 2 /\ node > 2 THEN <<1, len>>
        ELSE <<0, len>>]

\* the span reports considered: the exact ones, or any one node reporting any
\* span up to one byte past the end
SpanReports(shape, len, mode) ==
    IF mode = "exact" THEN {ExactSpan(shape, len)}
    ELSE {[ExactSpan(shape, len) EXCEPT ![node] = <<s, e>>] :
              node \in Nodes(shape), s \in 0..(len + 1), e \in 0..(len + 1)}

\* the trees a grammar may build for a source of len bytes
Trees(language, len, mode) ==
    UNION {{[shape |-> shape, language |-> language, span |-> span] :
                span \in SpanReports(shape, len, mode)} :
           shape \in IF len = 0 THEN {1} ELSE Shapes}

Leaves(t) == {node \in Nodes(t.shape) : ChildCount(t, node) = 0}

(***************************************************************************)
(* The highlight queries: the capture names of each query document, in the *)
(* order the document first uses them (the order of query.capture_names()),*)
(* and the matches the query engine (an opaque provider) reports.          *)
(***************************************************************************)
RUST_HIGHLIGHT_QUERY ==
    <<N_function, N_function_call, N_type, N_trait, N_type_builtin, N_keyword,
      N_string, N_character, N_number, N_boolean, N_comment, N_operator,
      N_punctuation, N_macro, N_variable>>

ODIN_HIGHLIGHT_QUERY ==
    <<N_function, N_function_call, N_type, N_type_builtin, N_constant, N_keyword,
      N_string, N_character, N_number, N_boolean, N_comment, N_operator,
      N_punctuation, N_keyword_directive, N_variable, N_field>>

PYTHON_HIGHLIGHT_QUERY ==
    <<N_function, N_function_call, N_type, N_punctuation, N_function_decorator,
      N_keyword, N_constant_builtin, N_string, N_number, N_comment, N_operator,
      N_variable, N_field, N_parameter>>

C_HIGHLIGHT_QUERY ==
    <<N_function, N_function_call, N_type, N_type_builtin, N_keyword,
      N_keyword_directive, N_string, N_character, N_number, N_comment,
      N_operator, N_punctuation, N_variable, N_field>>

NoQuery == <<>>

\* the match on lang_id that picks query_source in ts_get_highlight_tokens
QuerySource(lang_id) ==
    CASE lang_id = 0 -> RUST_HIGHLIGHT_QUERY
      [] lang_id = 1 -> C_HIGHLIGHT_QUERY
      [] lang_id = 2 -> PYTHON_HIGHLIGHT_QUERY
      [] lang_id = 3 -> ODIN_HIGHLIGHT_QUERY
      [] OTHER -> NoQuery

\* cap.index of the capture named name in the query
CaptureIndex(query, name) == (CHOOSE i \in 1..Len(query) : query[i] = name) - 1

\* query.capture_names()[index]
CaptureName(query, index) == query[index + 1]

Capture(query, node, name) == [node |-> node, index |-> CaptureIndex(query, name)]

\* cursor.matches(&query, root, bytes): the matches, each a list of captures
Matches(query, t) ==
    CASE t.shape = 2 ->
            << <<Capture(query, 4, N_function_call)>>,
               <<Capture(query, 2, N_keyword), Capture(query, 4, N_variable)>> >>
      [] t.shape = 3 ->
            << <<Capture(query, 3, N_function)>>,
               <<Capture(query, 2, N_punctuation), Capture(query, 3, N_variable)>> >>
      [] OTHER -> <<>>

(***************************************************************************)
(* Tokens.                                                                 *)
(***************************************************************************)
Token(start, end, kind_id) ==
    [start |-> start, end |-> end, kind_id |-> kind_id, pad |-> 0]

\* a plausible slip: the end is clamped but the pair is not swapped
LeafTokenNoSwap(t, node, src_len) ==
    LET start == IF StartByte(t, node) > src_len THEN src_len ELSE StartByte(t, node)
        end   == IF EndByte(t, node) > src_len THEN src_len ELSE EndByte(t, node)
    IN  Token(start, end, hash_kind(NodeKind(t, node)))

\* the token ts_get_tokens pushes for a leaf: both offsets clamped to src_len,
\* swapped when end < start, kind the hash of node.kind()
LeafToken(t, node, src_len) ==
    LET start == IF StartByte(t, node) > src_len THEN src_len ELSE StartByte(t, node)
        end   == IF EndByte(t, node) > src_len THEN src_len ELSE EndByte(t, node)
    IN  IF end < start
        THEN Token(end, start, hash_kind(NodeKind(t, node)))
        ELSE Token(start, end, hash_kind(NodeKind(t, node)))

\* the token ts_get_highlight_tokens pushes for a capture: the node's span as
\* reported, kind the hash of the capture's name
CaptureToken(query, t, cap) ==
    Token(StartByte(t, cap.node), EndByte(t, cap.node),
          hash_kind(CaptureName(query, cap.index)))

RECURSIVE CaptureTokens(_, _, _)
\* for cap in m.captures { tokens.push(..) }
CaptureTokens(query, t, caps) ==
    IF caps = <<>> THEN <<>>
    ELSE <<CaptureToken(query, t, Head(caps))>> \o CaptureTokens(query, t, Tail(caps))

RECURSIVE MatchTokens(_, _, _)
\* the loop over matches.advance() / matches.get()
MatchTokens(query, t, ms) ==
    IF ms = <<>> THEN <<>>
    ELSE CaptureTokens(query, t, Head(ms)) \o MatchTokens(query, t, Tail(ms))

RECURSIVE PushChildren(_, _, _, _)
\* for i in 0..node.child_count() { stack.push(node.child(i)) }, from index i
PushChildren(t, node, i, stk) ==
    IF i >= ChildCount(t, node) THEN stk
    ELSE PushChildren(t, node, i + 1, Append(stk, Child(t, node, i)))

RECURSIVE ToSexp(_, _)
\* node.to_sexp(): "(" kind, then " " and each child's form, then ")"
ToSexp(t, node) ==
    LET RECURSIVE Kids(_)
        Kids(i) == IF i >= ChildCount(t, node) THEN <<>>
                   ELSE <<32>> \o ToSexp(t, Child(t, node, i)) \o Kids(i + 1)
    IN  <<40>> \o NodeKind(t, node) \o Kids(0) \o <<41>>

(***************************************************************************)
(* The inputs of the entry points.                                         *)
(***************************************************************************)
MaxFreeLen == 3    \* largest len the caller passes to ts_free_tokens

NullSrc == [null |-> TRUE, utf8 |-> TRUE, len |-> 0]

\* a source pointer: null, a C string that is not UTF-8, or UTF-8 text of len bytes
Sources ==
    {NullSrc, [null |-> FALSE, utf8 |-> FALSE, len |-> 0]}
        \cup {[null |-> FALSE, utf8 |-> TRUE, len |-> l] : l \in 0..MaxSrcLen}

LangIds == {0, 1, 2, 3, 4, 999}

\* the record of a call: arguments, what the libraries answered, and the result
Call(op, src, lang_id, outNull) ==
    [op |-> op, src |-> src, lang_id |-> lang_id, outNull |-> outNull,
     attachOk |-> TRUE, parseOk |-> TRUE, queryOk |-> TRUE, writeOk |-> TRUE,
     done |-> TRUE, len |-> 0, wrote |-> FALSE, ptr |-> Null, tokens |-> <<>>,
     tree |-> NoTree, tree_ptr |-> Null, root_sexpr |-> Null, sexpr |-> <<>>]

NoRet == Call("none", NullSrc, 0, FALSE)

Top(stk) == stk[Len(stk)]
Popped(stk) == SubSeq(stk, 1, Len(stk) - 1)

(***************************************************************************)
(* ts_get_tokens                                                           *)
(***************************************************************************)
\* ts_get_tokens up to `let Some(tree) = parser.parse(code, None)`: NoTree
\* stands for every `return 0`
TokensParse(src, lang_id, outNull, attachOk, parseOk, t) ==
    IF src.null \/ outNull THEN NoTree
    ELSE IF ~src.utf8 THEN NoTree
    ELSE IF TokensLanguage(lang_id) = NoLanguage THEN NoTree
    ELSE IF ~attachOk THEN NoTree
    ELSE ParserParse(ParserSetLanguage(ParserNew, TokensLanguage(lang_id), attachOk),
                     parseOk, t)

\* whether the call gets as far as parser.set_language
TokensAttachReached(src, lang_id, outNull) ==
    ~src.null /\ ~outNull /\ src.utf8 /\ TokensLanguage(lang_id) # NoLanguage

\* a plausible slip: a failing call nulls the caller's slot
SlotAfterRejectNulled(slot) == Null

\* *out_tokens after a `return 0`: no failing path writes the slot
SlotAfterReject(slot) == slot

\* an answer of a library: either one when the call reaches it, else not drawn
Oracle(reached) == IF reached THEN BOOLEAN ELSE {TRUE}

\* a failing call: returns 0 and touches nothing
ts_get_tokens_reject ==
    /\ pc = "idle" /\ fault = "none"
    /\ \E src \in Sources, lang_id \in LangIds, outNull \in BOOLEAN :
       \E attachOk \in Oracle(TokensAttachReached(src, lang_id, outNull)) :
       \E parseOk \in Oracle(TokensAttachReached(src, lang_id, outNull) /\ attachOk) :
       \E t \in IF TokensAttachReached(src, lang_id, outNull) /\ attachOk /\ parseOk
                THEN Trees(TokensLanguage(lang_id), src.len, reports) ELSE {NoTree} :
          /\ TokensParse(src, lang_id, outNull, attachOk, parseOk, t) = NoTree
          /\ ret' = [Call("ts_get_tokens", src, lang_id, outNull)
                        EXCEPT !.attachOk = attachOk, !.parseOk = parseOk]
    /\ pc' = "returned"
    /\ outSlot' = SlotAfterReject(outSlot)
    /\ UNCHANGED <<heap, owned, misuse, fault, tree, stack, tokens,
                   reports, cName, cKind, cHash>>

\* the parse succeeded: the two Vecs are made and the root pushed
ts_get_tokens_enter ==
    /\ pc = "idle" /\ fault = "none"
    /\ FreeAddrs(heap) # {}
    /\ \E src \in Sources, lang_id \in LangIds, outNull \in BOOLEAN :
       \E attachOk \in Oracle(TokensAttachReached(src, lang_id, outNull)) :
       \E parseOk \in Oracle(TokensAttachReached(src, lang_id, outNull) /\ attachOk) :
       \E t \in IF TokensAttachReached(src, lang_id, outNull) /\ attachOk /\ parseOk
                THEN Trees(TokensLanguage(lang_id), src.len, reports) ELSE {NoTree} :
          /\ TokensParse(src, lang_id, outNull, attachOk, parseOk, t) # NoTree
          /\ tree' = TokensParse(src, lang_id, outNull, attachOk, parseOk, t)
          /\ ret' = [Call("ts_get_tokens", src, lang_id, outNull)
                        EXCEPT !.attachOk = attachOk, !.parseOk = parseOk,
                               !.done = FALSE, !.tree = tree']
    /\ stack' = <<1>>
    /\ tokens' = <<>>
    /\ pc' = "walk"
    /\ UNCHANGED <<heap, outSlot, owned, misuse, fault, reports, cName, cKind, cHash>>

\* a plausible slip: the loop over the children starts at 1
WalkStackSkipFirst(t, stk) ==
    IF ChildCount(t, Top(stk)) = 0 THEN Popped(stk)
    ELSE PushChildren(t, Top(stk), 1, Popped(stk))

\* the stack after one iteration of `while let Some(node) = stack.pop()`
WalkStack(t, stk) ==
    IF ChildCount(t, Top(stk)) = 0 THEN Popped(stk)
    ELSE PushChildren(t, Top(stk), 0, Popped(stk))

\* the token Vec after one iteration
WalkTokens(t, stk, toks, src_len) ==
    IF ChildCount(t, Top(stk)) = 0
    THEN Append(toks, LeafToken(t, Top(stk), src_len))
    ELSE toks

\* one iteration of the loop
ts_get_tokens_walk ==
    /\ pc = "walk" /\ stack # <<>>
    /\ stack' = WalkStack(tree, stack)
    /\ tokens' = WalkTokens(tree, stack, tokens, ret.src.len)
    /\ UNCHANGED <<heap, outSlot, owned, misuse, fault, pc, tree, ret, reports,
                   cName, cKind, cHash>>

\* the stack is empty: the Vec is boxed, forgotten, and handed over
ts_get_tokens_return ==
    /\ pc = "walk" /\ stack = <<>>
    /\ heap' = BoxedHeap(heap, tokens)
    /\ outSlot' = BoxedPtr(heap, tokens)
    /\ owned' = IF BoxedLen(tokens) = 0 THEN owned
                ELSE owned \cup {<<BoxedPtr(heap, tokens), Len(tokens)>>}
    /\ ret' = [ret EXCEPT !.done = TRUE, !.len = Len(tokens), !.wrote = TRUE,
                          !.ptr = BoxedPtr(heap, tokens), !.tokens = tokens]
    /\ tokens' = <<>>
    /\ tree' = NoTree
    /\ pc' = "returned"
    /\ UNCHANGED <<misuse, fault, stack, reports, cName, cKind, cHash>>

(***************************************************************************)
(* ts_get_highlight_tokens                                                 *)
(***************************************************************************)
\* ts_get_highlight_tokens up to `let Some(tree) = parser.parse(code, None)`;
\* the result of set_language is dropped by .ok()
HighlightParse(src, lang_id, outNull, attachOk, parseOk, t) ==
    IF src.null \/ outNull THEN NoTree
    ELSE IF ~src.utf8 THEN NoTree
    ELSE IF get_language(lang_id) = NoLanguage THEN NoTree
    ELSE ParserParse(ParserSetLanguage(ParserNew, get_language(lang_id), attachOk),
                     parseOk, t)

HighlightAttachReached(src, lang_id, outNull) ==
    ~src.null /\ ~outNull /\ src.utf8 /\ get_language(lang_id) # NoLanguage

\* whether the call gets past the query_source match and Query::new
HighlightQueryOk(lang_id, queryOk) == QuerySource(lang_id) # NoQuery /\ queryOk

\* the token Vec after the loop over the matches
HighlightTokens(lang_id, t) ==
    MatchTokens(QuerySource(lang_id), t, Matches(QuerySource(lang_id), t))

\* a failing call: returns 0 and touches nothing
ts_get_highlight_tokens_reject ==
    /\ pc = "idle" /\ fault = "none"
    /\ \E src \in Sources, lang_id \in LangIds, outNull \in BOOLEAN :
       \E attachOk \in Oracle(HighlightAttachReached(src, lang_id, outNull)) :
       \E parseOk \in Oracle(HighlightAttachReached(src, lang_id, outNull) /\ attachOk) :
       \E t \in IF HighlightAttachReached(src, lang_id, outNull) /\ parseOk
                THEN Trees(get_language(lang_id), src.len, reports) ELSE {NoTree} :
       \E queryOk \in Oracle(HighlightParse(src, lang_id, outNull, attachOk, parseOk, t) # NoTree
                                /\ QuerySource(lang_id) # NoQuery) :
          /\ \/ HighlightParse(src, lang_id, outNull, attachOk, parseOk, t) = NoTree
             \/ ~HighlightQueryOk(lang_id, queryOk)
          /\ ret' = [Call("ts_get_highlight_tokens", src, lang_id, outNull)
                        EXCEPT !.attachOk = attachOk, !.parseOk = parseOk,
                               !.queryOk = queryOk]
    /\ pc' = "returned"
    /\ outSlot' = SlotAfterReject(outSlot)
    /\ UNCHANGED <<heap, owned, misuse, fault, tree, stack, tokens,
                   reports, cName, cKind, cHash>>

\* a successful call: every capture of every match becomes a token, the Vec is
\* boxed, forgotten, and handed over
ts_get_highlight_tokens ==
    /\ pc = "idle" /\ fault = "none"
    /\ FreeAddrs(heap) # {}
    /\ \E src \in Sources, lang_id \in LangIds, outNull \in BOOLEAN :
       \E attachOk \in Oracle(HighlightAttachReached(src, lang_id, outNull)) :
       \E parseOk \in Oracle(HighlightAttachReached(src, lang_id, outNull) /\ attachOk) :
       \E t \in IF HighlightAttachReached(src, lang_id, outNull) /\ parseOk
                THEN Trees(get_language(lang_id), src.len, reports) ELSE {NoTree} :
       \E queryOk \in Oracle(HighlightParse(src, lang_id, outNull, attachOk, parseOk, t) # NoTree
                                /\ QuerySource(lang_id) # NoQuery) :
          LET parsed == HighlightParse(src, lang_id, outNull, attachOk, parseOk, t)
              toks   == HighlightTokens(lang_id, parsed)
          IN  /\ parsed # NoTree
              /\ HighlightQueryOk(lang_id, queryOk)
              /\ heap' = BoxedHeap(heap, toks)
              /\ outSlot' = BoxedPtr(heap, toks)
              /\ owned' = IF BoxedLen(toks) = 0 THEN owned
                          ELSE owned \cup {<<BoxedPtr(heap, toks), Len(toks)>>}
              /\ ret' = [Call("ts_get_highlight_tokens", src, lang_id, outNull)
                            EXCEPT !.attachOk = attachOk, !.parseOk = parseOk,
                                   !.queryOk = queryOk,
                                   !.len = Len(toks), !.wrote = TRUE,
                                   !.ptr = BoxedPtr(heap, toks), !.tokens = toks,
                                   !.tree = parsed]
    /\ pc' = "returned"
    /\ UNCHANGED <<misuse, fault, tree, stack, tokens, reports, cName, cKind, cHash>>

(***************************************************************************)
(* ts_free_tokens                                                          *)
(***************************************************************************)
\* a plausible slip: the null check dropped
FreeTokensOutcomeNoGuard(h, ptr, len) ==
    IF len = 0 /\ ptr # Null THEN "noop"
    ELSE IF ptr \in DOMAIN h /\ h[ptr].kind = "tokens" /\ h[ptr].n = len THEN "freed"
    ELSE "undefined"

\* what ts_free_tokens does: nothing for a null pointer; else the boxed slice
\* of len records at ptr is rebuilt and dropped, which deallocates nothing when
\* len is 0, frees the allocation when ptr is a live buffer of len records, and
\* is undefined behaviour otherwise
FreeTokensOutcome(h, ptr, len) ==
    IF ptr = Null THEN "noop"
    ELSE IF len = 0 THEN "noop"
    ELSE IF ptr \in DOMAIN h /\ h[ptr].kind = "tokens" /\ h[ptr].n = len THEN "freed"
    ELSE "undefined"

Pointers == {Null, Dangling} \cup DOMAIN heap

\* whether releasing (ptr, len) is within the contract: a buffer handed out and
\* not yet released, with its own length (a null pointer and an empty buffer's
\* dangling pointer are always accepted)
WithinContract(ptr, len) ==
    ptr = Null \/ <<ptr, len>> \in owned \/ (ptr = Dangling /\ len = 0)

FreeRet(ptr, len) ==
    [Call("ts_free_tokens", NullSrc, 0, FALSE) EXCEPT !.ptr = ptr, !.len = len]

\* the call with defined behaviour
ts_free_tokens ==
    /\ pc = "idle" /\ fault = "none"
    /\ \E ptr \in Pointers, len \in 0..MaxFreeLen :
          /\ FreeTokensOutcome(heap, ptr, len) # "undefined"
          /\ heap' = IF FreeTokensOutcome(heap, ptr, len) = "freed"
                     THEN Deallocate(heap, ptr) ELSE heap
          /\ owned' = IF FreeTokensOutcome(heap, ptr, len) = "freed"
                      THEN owned \ {<<ptr, len>>} ELSE owned
          /\ misuse' = (misuse \/ ~WithinContract(ptr, len))
          /\ ret' = FreeRet(ptr, len)
    /\ pc' = "returned"
    /\ UNCHANGED <<outSlot, fault, tree, stack, tokens, reports, cName, cKind, cHash>>

\* the call with undefined behaviour: the process crashes or runs on with a
\* corrupted heap
ts_free_tokens_undefined ==
    /\ pc = "idle" /\ fault = "none"
    /\ \E ptr \in Pointers, len \in 0..MaxFreeLen :
          /\ FreeTokensOutcome(heap, ptr, len) = "undefined"
          /\ misuse' = (misuse \/ ~WithinContract(ptr, len))
          /\ ret' = FreeRet(ptr, len)
    /\ fault' \in {"crash", "corrupt"}
    /\ pc' = "stopped"
    /\ UNCHANGED <<heap, outSlot, owned, tree, stack, tokens, reports,
                   cName, cKind, cHash>>

(***************************************************************************)
(* ts_parse and ts_free_result                                             *)
(***************************************************************************)
\* c_str.to_str().unwrap_or(""): the length of code
ParseCodeLen(src) == IF src.utf8 THEN src.len ELSE 0

\* a plausible slip: two placeholders exchanged
ParseResultSwapped(lang_id, attachOk, parseOk, t) ==
    IF get_language(lang_id) = NoLanguage
    THEN [tree |-> NoTree, sexpr |-> S_language_error]
    ELSE IF ~attachOk
    THEN [tree |-> NoTree, sexpr |-> S_unsupported]
    ELSE IF ParserParse(ParserSetLanguage(ParserNew, get_language(lang_id), attachOk),
                        parseOk, t) = NoTree
    THEN [tree |-> NoTree, sexpr |-> S_parse_failed]
    ELSE [tree |-> t, sexpr |-> ToSexp(t, 1)]

\* the tree and the string ts_parse returns
ParseResult(lang_id, attachOk, parseOk, t) ==
    IF get_language(lang_id) = NoLanguage
    THEN [tree |-> NoTree, sexpr |-> S_unsupported]
    ELSE IF ~attachOk
    THEN [tree |-> NoTree, sexpr |-> S_language_error]
    ELSE IF ParserParse(ParserSetLanguage(ParserNew, get_language(lang_id), attachOk),
                        parseOk, t) = NoTree
    THEN [tree |-> NoTree, sexpr |-> S_parse_failed]
    ELSE [tree |-> ParserParse(ParserSetLanguage(ParserNew, get_language(lang_id),
                                                 attachOk), parseOk, t),
          sexpr |-> ToSexp(t, 1)]

\* the heap after CString::new(..).into_raw() and, with a tree, Box::into_raw
ParseHeap(h, res) ==
    IF res.tree = NoTree THEN Allocate(h, "cstring", 1)
    ELSE Allocate(Allocate(h, "cstring", 1), "tree", 1)

ParseTreePtr(h, res) ==
    IF res.tree = NoTree THEN Null ELSE NewAddr(Allocate(h, "cstring", 1))

\* the strings CStr::from_ptr(source) may read: the caller's string, or, for a
\* null pointer (undefined behaviour), whatever bytes the read comes back with
ParseSources(src) == IF src.null THEN Sources \ {NullSrc} ELSE {src}

\* ts_parse returning: for a null source this is the run in which the read of
\* address 0 came back
ts_parse ==
    /\ pc = "idle" /\ fault = "none"
    /\ \E src \in Sources, lang_id \in LangIds :
       \E code \in ParseSources(src) :
       \E attachOk \in Oracle(get_language(lang_id) # NoLanguage) :
       \E parseOk \in Oracle(get_language(lang_id) # NoLanguage /\ attachOk) :
       \E t \in IF get_language(lang_id) # NoLanguage /\ attachOk /\ parseOk
                THEN Trees(get_language(lang_id), ParseCodeLen(code), reports)
                ELSE {NoTree} :
       \E writeOk \in Oracle(ParseResult(lang_id, attachOk, parseOk, t).tree # NoTree) :
          LET res == ParseResult(lang_id, attachOk, parseOk, t)
          IN  /\ Cardinality(FreeAddrs(heap)) >= (IF res.tree = NoTree THEN 1 ELSE 2)
              /\ heap' = ParseHeap(heap, res)
              /\ ret' = [Call("ts_parse", src, lang_id, FALSE)
                            EXCEPT !.attachOk = attachOk, !.parseOk = parseOk,
                                   !.writeOk = writeOk, !.tree = res.tree,
                                   !.tree_ptr = ParseTreePtr(heap, res),
                                   !.root_sexpr = NewAddr(heap),
                                   !.sexpr = res.sexpr]
    /\ pc' = "returned"
    /\ UNCHANGED <<outSlot, owned, misuse, fault, tree, stack, tokens, reports,
                   cName, cKind, cHash>>

\* ts_parse with a null source pointer, the run in which the read of address 0
\* in CStr::from_ptr ends the process
ts_parse_null ==
    /\ pc = "idle" /\ fault = "none"
    /\ \E lang_id \in LangIds :
          ret' = [Call("ts_parse", NullSrc, lang_id, FALSE) EXCEPT !.done = FALSE]
    /\ fault' = "crash"
    /\ pc' = "stopped"
    /\ UNCHANGED <<heap, outSlot, owned, misuse, tree, stack, tokens, reports,
                   cName, cKind, cHash>>

\* what ts_free_result does with one field: nothing for null, the drop of a
\* live allocation of the field's kind, undefined behaviour otherwise
FreeFieldOutcome(h, ptr, kind) ==
    IF ptr = Null THEN "noop"
    ELSE IF ptr \in DOMAIN h /\ h[ptr].kind = kind THEN "freed"
    ELSE "undefined"

FreeField(h, ptr, kind) ==
    IF FreeFieldOutcome(h, ptr, kind) = "freed" THEN Deallocate(h, ptr) ELSE h

FreeResultRet(tree_ptr, root_sexpr) ==
    [Call("ts_free_result", NullSrc, 0, FALSE)
        EXCEPT !.tree_ptr = tree_ptr, !.root_sexpr = root_sexpr]

\* the call with defined behaviour: the tree is dropped, then the string
ts_free_result ==
    /\ pc = "idle" /\ fault = "none"
    /\ \E tree_ptr \in Pointers, root_sexpr \in Pointers :
          /\ FreeFieldOutcome(heap, tree_ptr, "tree") # "undefined"
          /\ FreeFieldOutcome(FreeField(heap, tree_ptr, "tree"), root_sexpr, "cstring")
                 # "undefined"
          /\ heap' = FreeField(FreeField(heap, tree_ptr, "tree"), root_sexpr, "cstring")
          /\ ret' = FreeResultRet(tree_ptr, root_sexpr)
    /\ pc' = "returned"
    /\ UNCHANGED <<outSlot, owned, misuse, fault, tree, stack, tokens, reports,
                   cName, cKind, cHash>>

\* the call with undefined behaviour
ts_free_result_undefined ==
    /\ pc = "idle" /\ fault = "none"
    /\ \E tree_ptr \in Pointers, root_sexpr \in Pointers :
          /\ \/ FreeFieldOutcome(heap, tree_ptr, "tree") = "undefined"
             \/ FreeFieldOutcome(FreeField(heap, tree_ptr, "tree"), root_sexpr, "cstring")
                    = "undefined"
          /\ ret' = FreeResultRet(tree_ptr, root_sexpr)
    /\ fault' \in {"crash", "corrupt"}
    /\ pc' = "stopped"
    /\ UNCHANGED <<heap, outSlot, owned, misuse, tree, stack, tokens, reports,
                   cName, cKind, cHash>>

(***************************************************************************)
(* The caller: single-threaded, it takes each result before its next call. *)
(***************************************************************************)
caller_takes_result ==
    /\ pc = "returned" /\ fault = "none"
    /\ pc' = "idle"
    /\ ret' = NoRet
    /\ UNCHANGED <<heap, outSlot, owned, misuse, fault, tree, stack, tokens, reports,
                   cName, cKind, cHash>>

(***************************************************************************)
(* The classifier applied to a name (a run of its own).                    *)
(***************************************************************************)
Alphabet == {97, 102, 110, 195, 169}

RECURSIVE Words(_)
\* the byte strings over Alphabet of length up to n
Words(n) ==
    IF n = 0 THEN {<<>>}
    ELSE Words(n - 1) \cup {Append(w, b) : w \in Words(n - 1), b \in Alphabet}

Canonical ==
    {N_function, N_function_call, N_function_decorator, N_type, N_type_builtin,
     N_trait, N_keyword, N_keyword_directive, N_string, N_character, N_number,
     N_boolean, N_constant, N_constant_builtin, N_comment, N_operator,
     N_punctuation, N_variable, N_parameter, N_field, N_macro}

N_foobar == <<102, 111, 111, 98, 97, 114>>

Names ==
    Canonical \cup Words(MaxNameLen)
        \cup {N_source_file, N_translation_unit, N_module, N_fn, N_call_expression,
              N_identifier, N_lparen, N_expression_statement, N_foobar}

Classify ==
    /\ pc = "classify"
    /\ cKind' = map_capture_to_kind(cName)
    /\ cHash' = hash32(cName)
    /\ pc' = "classified"
    /\ UNCHANGED <<heap, outSlot, owned, misuse, fault, tree, stack, tokens, ret,
                   reports, cName>>

(***************************************************************************)
(* The specifications.                                                     *)
(***************************************************************************)
InitWith(cap, mode) ==
    /\ heap = [a \in 1..cap |-> FreeCell]
    /\ outSlot = Null
    /\ owned = {}
    /\ misuse = FALSE
    /\ fault = "none"
    /\ pc = "idle"
    /\ tree = NoTree
    /\ stack = <<>>
    /\ tokens = <<>>
    /\ ret = NoRet
    /\ reports = mode
    /\ cName = <<>>
    /\ cKind = 0
    /\ cHash = [hi |-> 0, lo |-> 0]

\* the whole gateway, the grammars reporting exact spans
Init == InitWith(MaxAllocs, "exact")

Next ==
    \/ ts_get_tokens_reject
    \/ ts_get_tokens_enter
    \/ ts_get_tokens_walk
    \/ ts_get_tokens_return
    \/ ts_get_highlight_tokens_reject
    \/ ts_get_highlight_tokens
    \/ ts_free_tokens
    \/ ts_free_tokens_undefined
    \/ ts_parse
    \/ ts_parse_null
    \/ ts_free_result
    \/ ts_free_result_undefined
    \/ caller_takes_result

Spec == Init /\ [][Next]_vars

\* the two tokenizers and the release of their buffers, one buffer at a time,
\* the grammars reporting any span for any one node
InitTok == InitWith(1, "arbitrary")

NextTok ==
    \/ ts_get_tokens_reject
    \/ ts_get_tokens_enter
    \/ ts_get_tokens_walk
    \/ ts_get_tokens_return
    \/ ts_get_highlight_tokens_reject
    \/ ts_get_highlight_tokens
    \/ ts_free_tokens
    \/ ts_free_tokens_undefined
    \/ caller_takes_result

SpecTok == InitTok /\ [][NextTok]_vars

\* the classifier on one name
InitKind ==
    /\ heap = [a \in 1..MaxAllocs |-> FreeCell]
    /\ outSlot = Null
    /\ owned = {}
    /\ misuse = FALSE
    /\ fault = "none"
    /\ pc = "classify"
    /\ tree = NoTree
    /\ stack = <<>>
    /\ tokens = <<>>
    /\ ret = NoRet
    /\ reports = "exact"
    /\ cName \in Names
    /\ cKind = 0
    /\ cHash = [hi |-> 0, lo |-> 0]

NextKind == Classify

SpecKind == InitKind /\ [][NextKind]_vars

(***************************************************************************)
(* Properties.                                                             *)
(***************************************************************************)
TokOps == {"ts_get_tokens", "ts_get_highlight_tokens"}

SupportedIds == 0..3

\* the failures of a tokenizer call r, read off its arguments and the
\* libraries' answers
Failure(r) ==
    \/ r.src.null
    \/ r.outNull
    \/ ~r.src.utf8
    \/ r.lang_id \notin SupportedIds
    \/ ~r.attachOk
    \/ ~r.parseOk
    \/ (r.op = "ts_get_highlight_tokens" /\ ~r.queryOk)

\* a tokenizer call has returned a buffer
Produced == pc = "returned" /\ ret.op \in TokOps /\ ret.wrote

SpanInRange(tok, len) == 0 <= tok.start /\ tok.start <= tok.end /\ tok.end <= len

\* C1: for every supported language id and every source, every token either
\* tokenizer returns satisfies 0 <= start <= end <= length(source), whatever
\* spans the grammar reports.
C1_TokensInRange ==
    (Produced /\ ret.lang_id \in SupportedIds) =>
        \A i \in 1..Len(ret.tokens) : SpanInRange(ret.tokens[i], ret.src.len)

\* (C1, the structural tokenizer alone: its tokens are in range.)
C1_StructuralInRange ==
    (Produced /\ ret.op = "ts_get_tokens") =>
        \A i \in 1..Len(ret.tokens) : SpanInRange(ret.tokens[i], ret.src.len)

RECURSIVE Flatten(_)
Flatten(ms) == IF ms = <<>> THEN <<>> ELSE Head(ms) \o Flatten(Tail(ms))

\* the captures of the last highlighter call, in match order, then capture order
CapturesOf(r) == Flatten(Matches(QuerySource(r.lang_id), r.tree))

\* C2: the highlighter emits one token per capture of every match, its kind
\* the Kind Classifier (table first, hash as fallback) applied to the capture's
\* declared name: `function` gets 1, `function.call` gets 2.
C2_CanonicalKinds ==
    (Produced /\ ret.op = "ts_get_highlight_tokens") =>
        /\ Len(ret.tokens) = Len(CapturesOf(ret))
        /\ \A i \in 1..Len(ret.tokens) :
              ret.tokens[i].kind_id =
                  map_capture_to_kind(
                      CaptureName(QuerySource(ret.lang_id), CapturesOf(ret)[i].index))

RECURSIVE SubtreeSize(_, _)
\* the number of nodes of the subtree at node
SubtreeSize(t, node) ==
    LET RECURSIVE Sum(_)
        Sum(i) == IF i >= ChildCount(t, node) THEN 0
                  ELSE SubtreeSize(t, Child(t, node, i)) + Sum(i + 1)
    IN  1 + Sum(0)

RECURSIVE Unvisited(_, _)
\* the nodes the loop of ts_get_tokens has still to pop
Unvisited(t, stk) ==
    IF stk = <<>> THEN 0 ELSE SubtreeSize(t, Head(stk)) + Unvisited(t, Tail(stk))

Min(a, b) == IF a <= b THEN a ELSE b
Max(a, b) == IF a >= b THEN a ELSE b

\* the token a leaf is to produce: its span clamped to len and ordered, its
\* kind the fallback hash of its kind name
ExpectedLeaf(t, node, len) ==
    Token(Min(Min(StartByte(t, node), len), Min(EndByte(t, node), len)),
          Max(Min(StartByte(t, node), len), Min(EndByte(t, node), len)),
          hash_kind(NodeKind(t, node)))

\* the returned tokens are the leaves' tokens, each leaf once, in some order
OneTokenPerLeaf(r) ==
    /\ r.len = Cardinality(Leaves(r.tree))
    /\ Len(r.tokens) = r.len
    /\ \A node \in Leaves(r.tree) :
          Cardinality({i \in 1..Len(r.tokens) :
                          r.tokens[i] = ExpectedLeaf(r.tree, node, r.src.len)})
            = Cardinality({m \in Leaves(r.tree) :
                          ExpectedLeaf(r.tree, m, r.src.len)
                              = ExpectedLeaf(r.tree, node, r.src.len)})

\* C3: the loop of ts_get_tokens terminates (every iteration leaves fewer
\* nodes to pop, and the call returns once none is left), and the buffer it
\* returns holds exactly one token for each leaf and none for a node with
\* children, each token's kind the fallback hash of the leaf's kind name.
C3_OneTokenPerLeaf ==
    [][ /\ (pc = "walk" /\ stack # <<>>) =>
              /\ pc' = "walk"
              /\ Unvisited(tree', stack') < Unvisited(tree, stack)
        /\ (pc = "walk" /\ stack = <<>>) =>
              /\ pc' = "returned"
              /\ ret'.wrote
              /\ OneTokenPerLeaf(ret') ]_vars

C3_Witness ==
    /\ Produced /\ ret.op = "ts_get_tokens"
    /\ ret.tree.shape = 2
    /\ ret.len = 3

\* C4: each tokenizer returns length 0 on every failure: null source or output
\* pointer, non-UTF-8 source, a language id outside 0..3, grammar attach
\* failure, no tree from the parser, and (highlighter) query compilation
\* failure.
C4_FailureReturnsZero ==
    (ret.op \in TokOps /\ Failure(ret)) =>
        /\ pc = "returned"
        /\ ret.done
        /\ ret.len = 0
        /\ ret.tokens = <<>>

C4_Witness ==
    /\ pc = "returned" /\ ret.op = "ts_get_highlight_tokens"
    /\ ~ret.src.null /\ ~ret.outNull /\ ret.src.utf8
    /\ ret.lang_id \in SupportedIds
    /\ ~ret.attachOk
    /\ ret.len = 0

\* C5: ts_parse returns a null tree handle exactly when it fails, with
\* "(unsupported)" for an id outside 0..3, "(language error)" for an attach
\* failure and "(parse failed)" when the parser returns no tree; on success the
\* handle is a live tree and the string is the root's s-expression.
C5_ParsePlaceholders ==
    (pc = "returned" /\ ret.op = "ts_parse" /\ ret.done) =>
        LET unsupported == ret.lang_id \notin SupportedIds
            attachFail  == ~unsupported /\ ~ret.attachOk
            parseFail   == ~unsupported /\ ret.attachOk /\ ~ret.parseOk
            failed      == unsupported \/ attachFail \/ parseFail
        IN  /\ (ret.tree_ptr = Null) <=> failed
            /\ unsupported => ret.sexpr = S_unsupported
            /\ attachFail => ret.sexpr = S_language_error
            /\ parseFail => ret.sexpr = S_parse_failed
            /\ ~failed =>
                  /\ ret.tree # NoTree
                  /\ ret.tree_ptr \in DOMAIN heap
                  /\ heap[ret.tree_ptr].kind = "tree"
                  /\ ret.sexpr = ToSexp(ret.tree, 1)
                  /\ ret.sexpr \notin {S_unsupported, S_language_error, S_parse_failed}
            /\ ret.root_sexpr \in DOMAIN heap
            /\ heap[ret.root_sexpr].kind = "cstring"

C5_Witness ==
    /\ pc = "returned" /\ ret.op = "ts_parse" /\ ret.done
    /\ ret.lang_id \in SupportedIds /\ ret.attachOk /\ ~ret.parseOk
    /\ ret.tree_ptr = Null
    /\ ret.sexpr = S_parse_failed

LiveBuffers == {a \in DOMAIN heap : heap[a].kind = "tokens"}

\* C6: a successful tokenizer call allocates exactly `length` initialised
\* records, hands them over and keeps nothing; as long as the caller releases
\* only buffers it holds, each with its own length, no release is a double free
\* and the live buffers are exactly those not yet released, so that once every
\* buffer is released none is live.
C6_ProduceReleasePairs ==
    /\ Produced =>
          /\ ret.len = Len(ret.tokens)
          /\ \A i \in 1..ret.len : ret.tokens[i] \in
                [start : Nat, end : Nat, kind_id : 0..(Limb - 1), pad : {0}]
          /\ ret.len > 0 =>
                /\ ret.ptr \in DOMAIN heap
                /\ heap[ret.ptr] = [kind |-> "tokens", n |-> ret.len]
                /\ <<ret.ptr, ret.len>> \in owned
          /\ ret.len = 0 => ret.ptr = Dangling
          /\ outSlot = ret.ptr
          /\ tokens = <<>> /\ stack = <<>> /\ tree = NoTree
    /\ ~misuse =>
          /\ ~(ret.op = "ts_free_tokens" /\ fault # "none")
          /\ LiveBuffers = {o[1] : o \in owned}
          /\ \A o \in owned : heap[o[1]].n = o[2]
          /\ owned = {} => LiveBuffers = {}

\* two buffers were held at once, both are released, nothing is live
C6_Witness ==
    /\ pc = "returned" /\ ret.op = "ts_free_tokens" /\ fault = "none"
    /\ ~misuse
    /\ ret.ptr = 2 /\ ret.len = 3
    /\ owned = {}
    /\ \A a \in DOMAIN heap : heap[a] = FreeCell

\* C7: ts_free_tokens with a null pointer, and ts_free_result with a null
\* tree handle and a null string, free nothing, do not fault and leave the
\* allocation state as it was.
C7_NullReleaseIsNoOp ==
    [][ (/\ pc = "idle"
         /\ \/ ret'.op = "ts_free_tokens" /\ ret'.ptr = Null
            \/ ret'.op = "ts_free_result" /\ ret'.tree_ptr = Null
                                          /\ ret'.root_sexpr = Null)
        => (heap' = heap /\ owned' = owned /\ outSlot' = outSlot
                /\ fault' = "none" /\ misuse' = misuse) ]_vars

C7_Witness ==
    /\ pc = "returned" /\ ret.op = "ts_free_tokens"
    /\ ret.ptr = Null /\ ret.len = 0
    /\ fault = "none"
    /\ LiveBuffers # {}

\* C8: no entry point ends the process, whatever the input: a null or
\* non-UTF-8 source, an unsupported id, a grammar or query failure, a failed
\* debug write; every call returns an explicit result.
C8_NoEntryPointFaults ==
    (ret.op \in TokOps \cup {"ts_parse"}) =>
        (fault = "none" /\ pc # "stopped" /\ (pc = "returned" => ret.done))

CanonicalCode(name) ==
    CASE name = N_function -> 1
      [] name = N_function_call -> 2
      [] name = N_type -> 3
      [] name = N_type_builtin -> 4
      [] name = N_keyword -> 5
      [] name = N_string -> 6
      [] name = N_character -> 7
      [] name = N_number -> 8
      [] name = N_boolean -> 9
      [] name = N_comment -> 10
      [] name = N_operator -> 11
      [] name = N_punctuation -> 12
      [] name = N_variable -> 13
      [] name \in {N_constant, N_constant_builtin} -> 14
      [] name = N_field -> 15
      [] name = N_parameter -> 16
      [] name = N_macro -> 17
      [] name = N_trait -> 18
      [] name = N_keyword_directive -> 19
      [] name = N_function_decorator -> 20

\* FNV-1a reference values (32-bit), as [hi, lo] limbs
FnvReference ==
    {<< <<>>, 33052, 40389 >>,                \* ""            811C9DC5
     << <<97>>, 58380, 10540 >>,              \* "a"           E40C292C
     << N_foobar, 49052, 63848 >>,            \* "foobar"      BF9CF968
     << N_fn, 25378, 59861 >>,                \* "fn"          6322E9D5
     << N_identifier, 10405, 43070 >>,        \* "identifier"  28A5A83E
     << N_source_file, 10170, 22019 >>}       \* "source_file" 27BA5603

\* C9: the classifier gives each of the 21 canonical names its code in 1..20,
\* distinct names distinct codes except `constant` and `constant.builtin`
\* (one code), the table taking precedence over the hash; every other name
\* gets the 32-bit FNV-1a hash of its bytes (seed 2166136261, XOR then multiply
\* by 16777619 modulo 2^32) masked with 0xFFFF.
C9_Classifier ==
    (pc = "classified") =>
        /\ Cardinality(Canonical) = 21
        /\ cName \in Canonical =>
              /\ cKind \in 1..20
              /\ cKind = CanonicalCode(cName)
              /\ \A other \in Canonical \ {cName} :
                    (map_capture_to_kind(other) = cKind)
                        <=> ({other, cName} = {N_constant, N_constant_builtin})
        /\ cName \notin Canonical =>
              /\ cKind = cHash.lo
              /\ cKind \in 0..(Limb - 1)
        /\ cHash.hi \in 0..(Limb - 1) /\ cHash.lo \in 0..(Limb - 1)
        /\ \A ref \in FnvReference :
              cName = ref[1] => cHash = [hi |-> ref[2], lo |-> ref[3]]

C9_Witness ==
    /\ pc = "classified"
    /\ cName = N_constant_builtin
    /\ cKind = TOKEN_CONSTANT

\* C10: a tokenizer call that fails leaves the caller's slot *out_tokens as
\* it was (it is not set to null); the slot is written only when a call
\* succeeds, once, as it returns, with the pointer to the buffer.
C10_SlotWrittenOnSuccessOnly ==
    [][ /\ (pc' = "returned" /\ pc # "returned" /\ ret'.op \in TokOps /\ Failure(ret'))
              => (outSlot' = outSlot /\ ~ret'.wrote)
        /\ (pc' = "walk") => outSlot' = outSlot
        /\ (pc' = "returned" /\ pc # "returned" /\ ret'.op \in TokOps /\ ~Failure(ret'))
              => (ret'.wrote /\ outSlot' = ret'.ptr /\ ret'.ptr # Null) ]_vars

C10_Witness ==
    /\ pc = "returned" /\ ret.op \in TokOps /\ Failure(ret)
    /\ ret.len = 0
    /\ outSlot \in DOMAIN heap
    /\ heap[outSlot].kind = "tokens"

====
